---------------------------- MODULE Spec2Model ----------------------------
(***************************************************************************)
(* VideoFreeze: the frame sampler (analyzer/frame_extractor.py), the       *)
(* aesthetic scorer / selector (analyzer/aesthetic_scorer.py), the four    *)
(* metric functions it calls (sharpness.py, face_detector.py,              *)
(* brightness.py, composition.py) and the lazily loaded face classifier.   *)
(*                                                                         *)
(* Representation of Python values:                                        *)
(*   - an optional value (None or v) is the sequence <<>> or <<v>>;        *)
(*   - a metric score is an integer number of points (0..100);             *)
(*   - a weight is an integer number of hundredths (0.30 is 30), so an     *)
(*     overall score is held in hundredths of a point and the literal -1   *)
(*     of the code is -1 * WeightScale;                                    *)
(*   - a frame rate is an integer number of tenths of a frame per second   *)
(*     (the step of the sampling-rate slider). The rates the model draws   *)
(*     are multiples of 0.5, which binary floating point holds exactly,    *)
(*     so int(F / R) of the code is the truncated quotient of the two      *)
(*     integers;                                                           *)
(*   - a timestamp produced by the sampler, and a float computed by a      *)
(*     metric function, is the exact fraction [num, den] with den > 0;     *)
(*     score_frame takes each metric result rounded down to whole points.  *)
(***************************************************************************)
EXTENDS Integers, Sequences, FiniteSets, TLC

VARIABLES
    (* ---- aesthetic_scorer.py: one call of find_best_frame / score_all_frames *)
    op,                 \* which function is being called
    frames,             \* argument frames: list of (frame, timestamp)
    weights,            \* argument weights: optional dict
    progress_callback,  \* argument progress_callback: "None" or a hook name
    pc,                 \* position in the call
    i,                  \* loop index of enumerate(frames)
    best_index,         \* find_best_frame local
    best_score,         \* find_best_frame local (hundredths of a point)
    best_scores_dict,   \* find_best_frame local: optional dict
    results,            \* score_all_frames local
    ret,                \* optional returned value
    error,              \* exception that left the call ("" when none)
    trace,              \* calls made so far: <<"score", index>> and <<"hook", done, total>>
    progress,           \* what update_progress (app.py) last showed
    (* ---- frame_extractor.py: one call of extract_frames *)
    source,             \* the container behind video_path, as the decoder sees it
    fps,                \* argument fps (tenths of a frame per second)
    xpc,                \* position in the call
    cap,                \* the cv2.VideoCapture handle: "none", "open", "released"
    releases,           \* number of cap.release() calls
    reads,              \* number of cap.read() calls
    video_fps,          \* local video_fps
    frame_interval,     \* local frame_interval
    frame_count,        \* local frame_count
    xframes,            \* local frames
    xret,               \* optional returned list
    xerror,             \* exception that left the call ("" when none)
    (* ---- score_frame and the four metric functions on one image *)
    image,              \* what OpenCV and numpy measure on the frame
    mweights,           \* argument weights: optional dict
    mpc,                \* position in score_frame
    msharp,             \* optional result of calculate_sharpness
    mface,              \* optional result of detect_faces
    mbright,            \* optional locals of calculate_brightness_balance at its return
    mcomp,              \* optional locals of calculate_composition_score at its return
    mscores,            \* optional returned dict
    (* ---- face_detector.py: the module global and the threads calling into it *)
    face_cascade,       \* the global _face_cascade: optional classifier instance
    loads,              \* number of cv2.CascadeClassifier(...) constructions
    tfn,                \* per thread: the function it is executing
    tpc,                \* per thread: position in _get_face_cascade and its caller
    tlocal,             \* per thread: the local face_cascade, optional instance
    tcalls,             \* per thread: calls completed
    used                \* instances detectMultiScale has been called on

scorerVars == <<op, frames, weights, progress_callback, pc, i, best_index,
                best_score, best_scores_dict, results, ret, error, trace, progress>>
samplerVars == <<source, fps, xpc, cap, releases, reads, video_fps,
                 frame_interval, frame_count, xframes, xret, xerror>>
metricVars == <<image, mweights, mpc, msharp, mface, mbright, mcomp, mscores>>
cascadeVars == <<face_cascade, loads, tfn, tpc, tlocal, tcalls, used>>
vars == <<scorerVars, samplerVars, metricVars, cascadeVars>>

\* What each part of the program leaves alone.
exceptScorer == <<samplerVars, metricVars, cascadeVars>>
exceptSampler == <<scorerVars, metricVars, cascadeVars>>
exceptMetric == <<scorerVars, samplerVars, cascadeVars>>
exceptCascade == <<scorerVars, samplerVars, metricVars>>

(***************************************************************************)
(* Bounds of the model.                                                    *)
(***************************************************************************)
MaxLen == 3         \* longest sample sequence handed to the scorer
MaxNative == 5      \* most decodable native frames in a container
MaxFaces == 6       \* most boxes the face detector returns for one frame
NumThreads == 2     \* threads calling into face_detector.py
MaxCalls == 2       \* calls each thread makes into face_detector.py

(***************************************************************************)
(* aesthetic_scorer.py                                                     *)
(***************************************************************************)
WeightScale == 100

DEFAULT_WEIGHTS ==
    [sharpness |-> 30, face_clarity |-> 25, brightness |-> 20, composition |-> 25]

\* Frames are told apart by id; the remaining fields are what the four
\* metric functions compute from the pixels (FrameC: a black frame, whose
\* brightness score is the lowest contrast band alone). ok = FALSE is a
\* malformed buffer on which a metric raises.
FrameA == [id |-> 1, ok |-> TRUE, sharpness |-> 100, face_clarity |-> 0,
           face_count |-> 0, brightness |-> 50, composition |-> 0]
FrameB == [id |-> 2, ok |-> TRUE, sharpness |-> 0, face_clarity |-> 100,
           face_count |-> 2, brightness |-> 50, composition |-> 0]
FrameC == [id |-> 3, ok |-> TRUE, sharpness |-> 0, face_clarity |-> 0,
           face_count |-> 0, brightness |-> 5, composition |-> 0]
FrameBad == [id |-> 4, ok |-> FALSE, sharpness |-> 0, face_clarity |-> 0,
             face_count |-> 0, brightness |-> 0, composition |-> 0]

\* The (frame, timestamp) pairs callers build sequences from. FrameA occurs
\* at two timestamps: equal breakdowns at different positions.
SamplePool == { <<FrameA, 0>>, <<FrameB, 1>>, <<FrameC, 2>>, <<FrameBad, 3>>,
                <<FrameA, 4>> }

RECURSIVE SeqsUpTo(_, _)
SeqsUpTo(S, n) ==
    IF n = 0 THEN { <<>> }
    ELSE LET shorter == SeqsUpTo(S, n - 1)
         IN shorter \cup { Append(s, x) : s \in { t \in shorter : Len(t) = n - 1 }, x \in S }

\* Weight sets as the callers build them: None (the smoke test), and what
\* app.py makes of its four sliders, each in [0, 1]: the values divided by
\* their sum (equal sliders; sharpness alone), or 0.25 each when the sum is 0.
\* Every weight a caller passes is therefore >= 0. The last set is the four
\* sliders at 1.0 handed over as they are, by a caller that does not divide
\* by the sum: score_frame accepts any dict.
WeightChoices ==
    { <<>>,
      << [sharpness |-> 25, face_clarity |-> 25, brightness |-> 25, composition |-> 25] >>,
      << [sharpness |-> 100, face_clarity |-> 0, brightness |-> 0, composition |-> 0] >>,
      << [sharpness |-> 0, face_clarity |-> 50, brightness |-> 50, composition |-> 0] >>,
      << [sharpness |-> 100, face_clarity |-> 100, brightness |-> 100, composition |-> 100] >> }

Callbacks == { "None", "noop", "update_progress" }

\* The individual metric functions, as score_frame sees them.
calculate_sharpness(frame) == frame.sharpness
detect_faces(frame) == <<frame.face_clarity, frame.face_count>>
calculate_brightness_balance(frame) == frame.brightness
calculate_composition_score(frame) == frame.composition

\* Variant: a metric failure is swallowed and the frame scored as it stands.
MetricRaises_Swallowed(frame) == FALSE

\* A metric raises on a malformed frame buffer.
MetricRaises(frame) == ~frame.ok

\* Variant: supplied weights are divided by their sum before use.
EffectiveWeights_Normalised(w) ==
    IF w = <<>> THEN DEFAULT_WEIGHTS
    ELSE LET d == w[1]
             total == d.sharpness + d.face_clarity + d.brightness + d.composition
         IN IF total = 0 THEN d
            ELSE [sharpness |-> (d.sharpness * WeightScale) \div total,
                  face_clarity |-> (d.face_clarity * WeightScale) \div total,
                  brightness |-> (d.brightness * WeightScale) \div total,
                  composition |-> (d.composition * WeightScale) \div total]

\* Lines 35-36: the default weights only when none are supplied.
EffectiveWeights(w) == IF w = <<>> THEN DEFAULT_WEIGHTS ELSE w[1]

score_frame(frame, w) ==
    LET wt == EffectiveWeights(w)
        sharpness == calculate_sharpness(frame)
        face == detect_faces(frame)
        brightness == calculate_brightness_balance(frame)
        composition == calculate_composition_score(frame)
        overall_score == sharpness * wt.sharpness
                         + face[1] * wt.face_clarity
                         + brightness * wt.brightness
                         + composition * wt.composition
    IN [overall |-> overall_score,
        sharpness |-> sharpness,
        face_clarity |-> face[1],
        face_count |-> face[2],
        brightness |-> brightness,
        composition |-> composition]

\* Variant: the empty check is missing.
NotFrames_Unchecked(fs) == FALSE

\* Python truthiness of the two arguments the code tests.
NotFrames(fs) == Len(fs) = 0
Truthy(cb) == cb # "None"

\* Variant: >= in place of >, so that a later equal score displaces the best.
Beats_OrTies(overall, best) == overall >= best

\* The comparison of line 88.
Beats(overall, best) == overall > best

\* Variant: the loop index is reported as it is, one short.
HookArgs_ZeroBased(idx, fs) == <<idx, Len(fs)>>

\* The arguments of the progress call.
HookArgs(idx, fs) == <<idx + 1, Len(fs)>>

\* update_progress of app.py: progress = min(current / total, 1.0), shown
\* with the text "Processing frame current/total".
CallHook(cb, args, shown) == IF cb = "update_progress" THEN <<args>> ELSE shown

\* Variant: the new pair is put in front of the list.
ResultsAppend_Front(rs, item) == <<item>> \o rs

\* results.append(...) of line 122.
ResultsAppend(rs, item) == Append(rs, item)

\* What one loop iteration adds to the call trace.
IterTrace(cb, idx, fs) ==
    IF Truthy(cb) THEN << <<"score", idx>>, <<"hook">> \o HookArgs(idx, fs) >>
    ELSE << <<"score", idx>> >>

ScorerInit ==
    /\ op \in { "find_best_frame", "score_all_frames" }
    /\ frames \in SeqsUpTo(SamplePool, MaxLen)
    /\ weights \in WeightChoices
    /\ progress_callback \in Callbacks
    /\ pc = "call"
    /\ i = 0
    /\ best_index = 0
    /\ best_score = 0
    /\ best_scores_dict = <<>>
    /\ results = <<>>
    /\ ret = <<>>
    /\ error = ""
    /\ trace = <<>>
    /\ progress = <<>>

\* Variant: the initial best score is 0, not -1.
FB_Enter_ZeroSentinel ==
    /\ op = "find_best_frame" /\ pc = "call"
    /\ IF NotFrames(frames)
       THEN /\ pc' = "raised"
            /\ error' = "ValueError: No frames provided"
            /\ UNCHANGED <<best_index, best_score, best_scores_dict>>
       ELSE /\ pc' = "loop"
            /\ best_index' = 0
            /\ best_score' = 0
            /\ best_scores_dict' = <<>>
            /\ error' = ""
    /\ i' = 0
    /\ UNCHANGED <<op, frames, weights, progress_callback, results, ret, trace, progress>>
    /\ UNCHANGED exceptScorer

\* find_best_frame, lines 78-83: the empty check and the initial best.
FB_Enter ==
    /\ op = "find_best_frame" /\ pc = "call"
    /\ IF NotFrames(frames)
       THEN /\ pc' = "raised"
            /\ error' = "ValueError: No frames provided"
            /\ UNCHANGED <<best_index, best_score, best_scores_dict>>
       ELSE /\ pc' = "loop"
            /\ best_index' = 0
            /\ best_score' = -1 * WeightScale
            /\ best_scores_dict' = <<>>
            /\ error' = ""
    /\ i' = 0
    /\ UNCHANGED <<op, frames, weights, progress_callback, results, ret, trace, progress>>
    /\ UNCHANGED exceptScorer

\* find_best_frame, lines 85-95: one iteration of the loop.
FB_Iterate ==
    /\ op = "find_best_frame" /\ pc = "loop" /\ i < Len(frames)
    /\ LET frame == frames[i + 1][1]
       IN IF MetricRaises(frame)
          THEN /\ pc' = "raised"
               /\ error' = "MetricError"
               /\ trace' = Append(trace, <<"score", i>>)
               /\ UNCHANGED <<i, best_index, best_score, best_scores_dict, progress>>
          ELSE LET scores == score_frame(frame, weights)
               IN /\ IF Beats(scores.overall, best_score)
                     THEN /\ best_score' = scores.overall
                          /\ best_index' = i
                          /\ best_scores_dict' = <<scores>>
                     ELSE UNCHANGED <<best_index, best_score, best_scores_dict>>
                  /\ trace' = trace \o IterTrace(progress_callback, i, frames)
                  /\ progress' = IF Truthy(progress_callback)
                                 THEN CallHook(progress_callback, HookArgs(i, frames), progress)
                                 ELSE progress
                  /\ i' = i + 1
                  /\ UNCHANGED <<pc, error>>
    /\ UNCHANGED <<op, frames, weights, progress_callback, results, ret>>
    /\ UNCHANGED exceptScorer

\* Variant: the loop variables frame, timestamp are returned, not frames[best_index].
FB_Return_LoopVars ==
    /\ op = "find_best_frame" /\ pc = "loop" /\ i = Len(frames)
    /\ pc' = "done"
    /\ ret' = << <<best_index, frames[Len(frames)][1], frames[Len(frames)][2],
                   best_scores_dict>> >>
    /\ UNCHANGED <<op, frames, weights, progress_callback, i, best_index,
                   best_score, best_scores_dict, results, error, trace, progress>>
    /\ UNCHANGED exceptScorer

\* find_best_frame, lines 97-99: unpack frames[best_index] and return.
FB_Return ==
    /\ op = "find_best_frame" /\ pc = "loop" /\ i = Len(frames)
    /\ IF best_index + 1 > Len(frames)
       THEN /\ pc' = "raised"
            /\ error' = "IndexError"
            /\ UNCHANGED ret
       ELSE /\ pc' = "done"
            /\ ret' = << <<best_index, frames[best_index + 1][1],
                           frames[best_index + 1][2], best_scores_dict>> >>
            /\ UNCHANGED error
    /\ UNCHANGED <<op, frames, weights, progress_callback, i, best_index,
                   best_score, best_scores_dict, results, trace, progress>>
    /\ UNCHANGED exceptScorer

\* Variant: score_all_frames with the empty check of find_best_frame.
SA_Enter_Checked ==
    /\ op = "score_all_frames" /\ pc = "call"
    /\ IF NotFrames(frames)
       THEN /\ pc' = "raised"
            /\ error' = "ValueError: No frames provided"
       ELSE /\ pc' = "loop"
            /\ error' = ""
    /\ results' = <<>>
    /\ i' = 0
    /\ UNCHANGED <<op, frames, weights, progress_callback, best_index, best_score,
                   best_scores_dict, ret, trace, progress>>
    /\ UNCHANGED exceptScorer

\* score_all_frames, line 118: results = [] (the function has no empty check).
SA_Enter ==
    /\ op = "score_all_frames" /\ pc = "call"
    /\ pc' = "loop"
    /\ results' = <<>>
    /\ i' = 0
    /\ UNCHANGED <<op, frames, weights, progress_callback, best_index, best_score,
                   best_scores_dict, ret, error, trace, progress>>
    /\ UNCHANGED exceptScorer

\* score_all_frames, lines 120-125: one iteration of the loop.
SA_Iterate ==
    /\ op = "score_all_frames" /\ pc = "loop" /\ i < Len(frames)
    /\ LET frame == frames[i + 1][1]
           timestamp == frames[i + 1][2]
       IN IF MetricRaises(frame)
          THEN /\ pc' = "raised"
               /\ error' = "MetricError"
               /\ trace' = Append(trace, <<"score", i>>)
               /\ UNCHANGED <<i, results, progress>>
          ELSE /\ results' = ResultsAppend(results, <<timestamp, score_frame(frame, weights)>>)
               /\ trace' = trace \o IterTrace(progress_callback, i, frames)
               /\ progress' = IF Truthy(progress_callback)
                              THEN CallHook(progress_callback, HookArgs(i, frames), progress)
                              ELSE progress
               /\ i' = i + 1
               /\ UNCHANGED <<pc, error>>
    /\ UNCHANGED <<op, frames, weights, progress_callback, best_index, best_score,
                   best_scores_dict, ret>>
    /\ UNCHANGED exceptScorer

\* score_all_frames, line 127.
SA_Return ==
    /\ op = "score_all_frames" /\ pc = "loop" /\ i = Len(frames)
    /\ pc' = "done"
    /\ ret' = <<results>>
    /\ UNCHANGED <<op, frames, weights, progress_callback, i, best_index, best_score,
                   best_scores_dict, results, error, trace, progress>>
    /\ UNCHANGED exceptScorer

ScorerIdle ==
    /\ op = "none" /\ frames = <<>> /\ weights = <<>> /\ progress_callback = "None"
    /\ pc = "idle" /\ i = 0 /\ best_index = 0 /\ best_score = 0
    /\ best_scores_dict = <<>> /\ results = <<>> /\ ret = <<>> /\ error = ""
    /\ trace = <<>> /\ progress = <<>>

(***************************************************************************)
(* frame_extractor.py                                                      *)
(***************************************************************************)
RateUnit == 10

\* What cv2.VideoCapture finds behind video_path: whether it opens, the
\* CAP_PROP_FPS it reports (tenths of a frame per second; 0 and negative
\* values are what a decoder reports for an unknown rate), how many frames
\* cap.read() decodes before end of stream, and which read (0: none) raises.
NativeRates == { -10, 0, 10, 15, 25, 30 }

Sources ==
    { [opened |-> TRUE, rate |-> f, native |-> n, fault |-> e] :
        f \in NativeRates, n \in 0..MaxNative, e \in 0..MaxNative + 1 }

\* The synthetic video of the smoke test: 2 seconds at 30 fps.
SmokeVideo == [opened |-> TRUE, rate |-> 30 * RateUnit, native |-> 2 * 30, fault |-> 0]

Unopenable == [opened |-> FALSE, rate |-> 0, native |-> 0, fault |-> 0]

\* Requested sampling rates: the slider's default 0.5, 1.0 (the function's
\* default), 1.5, 2.0 (the slider's maximum), and 0.
RequestedRates == { 0, 5, 10, 15, 20 }

Abs(x) == IF x < 0 THEN -x ELSE x

\* Variant: round(a / b), the quotient rounded to the nearest integer (ties to even).
IntOfQuotient_Rounded(a, b) ==
    LET q == Abs(a) \div Abs(b)
        r == Abs(a) % Abs(b)
        n == IF 2 * r > Abs(b) \/ (2 * r = Abs(b) /\ q % 2 = 1) THEN q + 1 ELSE q
    IN IF (a < 0) = (b < 0) THEN n ELSE -n

\* int(a / b) of Python for b # 0: the quotient truncated toward zero.
IntOfQuotient(a, b) ==
    IF (a < 0) = (b < 0) THEN Abs(a) \div Abs(b) ELSE -(Abs(a) \div Abs(b))

\* Variant: the operands of the division swapped, int(fps / video_fps).
FrameInterval_Swapped(vfps, rfps) ==
    LET raw == (IF (vfps < 0) = (rfps < 0) THEN Abs(rfps) \div Abs(vfps)
                ELSE -(Abs(rfps) \div Abs(vfps)))
    IN IF raw < 1 THEN 1 ELSE raw

\* Lines 42-44.
FrameInterval(vfps, rfps) ==
    LET raw == IntOfQuotient(vfps, rfps)
    IN IF raw < 1 THEN 1 ELSE raw

\* frame_count / video_fps in seconds, as an exact fraction with den > 0.
Timestamp(count, vfps) ==
    IF vfps < 0 THEN [num |-> -(count * RateUnit), den |-> -vfps]
    ELSE [num |-> count * RateUnit, den |-> vfps]

\* Line 57.
Sampled(count, interval) == count % interval = 0

\* frame.copy(): an independent buffer with the content of native frame k.
FrameCopy(k) == k

SamplerInit ==
    /\ source \in { s \in Sources : s.fault <= s.native + 1 } \cup { SmokeVideo, Unopenable }
    /\ fps \in RequestedRates
    /\ xpc = "call"
    /\ cap = "none"
    /\ releases = 0
    /\ reads = 0
    /\ video_fps = 0
    /\ frame_interval = 0
    /\ frame_count = 0
    /\ xframes = <<>>
    /\ xret = <<>>
    /\ xerror = ""

SamplerIdle ==
    /\ source = Unopenable /\ fps = 0 /\ xpc = "idle" /\ cap = "none"
    /\ releases = 0 /\ reads = 0 /\ video_fps = 0 /\ frame_interval = 0
    /\ frame_count = 0 /\ xframes = <<>> /\ xret = <<>> /\ xerror = ""

\* Lines 27-30: open the container.
X_Open ==
    /\ xpc = "call"
    /\ IF source.opened
       THEN /\ cap' = "open"
            /\ xpc' = "props"
            /\ UNCHANGED xerror
       ELSE /\ xpc' = "raised"
            /\ xerror' = "ValueError: Could not open video file"
            /\ UNCHANGED cap
    /\ UNCHANGED <<source, fps, releases, reads, video_fps, frame_interval,
                   frame_count, xframes, xret>>
    /\ UNCHANGED exceptSampler

\* Lines 33-39: read the properties; a rate equal to 0 is rejected.
X_Props ==
    /\ xpc = "props"
    /\ video_fps' = source.rate
    /\ IF source.rate = 0
       THEN /\ cap' = "released"
            /\ releases' = releases + 1
            /\ xpc' = "raised"
            /\ xerror' = "RuntimeError: Could not determine video FPS"
       ELSE /\ xpc' = "interval"
            /\ UNCHANGED <<cap, releases, xerror>>
    /\ UNCHANGED <<source, fps, reads, frame_interval, frame_count, xframes, xret>>
    /\ UNCHANGED exceptSampler

\* Lines 42-47: the frame interval; the division is outside the try block.
X_Interval ==
    /\ xpc = "interval"
    /\ IF fps = 0
       THEN /\ xpc' = "raised"
            /\ xerror' = "ZeroDivisionError"
            /\ UNCHANGED <<frame_interval, frame_count, xframes>>
       ELSE /\ frame_interval' = FrameInterval(video_fps, fps)
            /\ xframes' = <<>>
            /\ frame_count' = 0
            /\ xpc' = "read"
            /\ UNCHANGED xerror
    /\ UNCHANGED <<source, fps, cap, releases, reads, video_fps, xret>>
    /\ UNCHANGED exceptSampler

\* Lines 50-61 (and 63-64 when read raises): one cap.read() and what follows.
X_Read ==
    /\ xpc = "read"
    /\ reads' = reads + 1
    /\ IF source.fault = reads + 1
       THEN \* the exception leaves through finally: cap.release()
            /\ cap' = "released"
            /\ releases' = releases + 1
            /\ xpc' = "raised"
            /\ xerror' = "ReadError"
            /\ UNCHANGED <<frame_count, xframes>>
       ELSE IF frame_count >= source.native
            THEN \* ret is False: break
                 /\ xpc' = "finally"
                 /\ UNCHANGED <<cap, releases, xerror, frame_count, xframes>>
            ELSE /\ xframes' = IF Sampled(frame_count, frame_interval)
                               THEN Append(xframes, <<FrameCopy(frame_count),
                                                      Timestamp(frame_count, video_fps)>>)
                               ELSE xframes
                 /\ frame_count' = frame_count + 1
                 /\ UNCHANGED <<cap, releases, xerror, xpc>>
    /\ UNCHANGED <<source, fps, video_fps, frame_interval, xret>>
    /\ UNCHANGED exceptSampler

\* Lines 63-64: finally on the normal path.
X_Finally ==
    /\ xpc = "finally"
    /\ cap' = "released"
    /\ releases' = releases + 1
    /\ xpc' = "check"
    /\ UNCHANGED <<source, fps, reads, video_fps, frame_interval, frame_count,
                   xframes, xret, xerror>>
    /\ UNCHANGED exceptSampler

\* Variant: the list is returned without the check of lines 66-67.
X_Return_Unchecked ==
    /\ xpc = "check"
    /\ xpc' = "done"
    /\ xret' = <<xframes>>
    /\ UNCHANGED xerror
    /\ UNCHANGED <<source, fps, cap, releases, reads, video_fps, frame_interval,
                   frame_count, xframes>>
    /\ UNCHANGED exceptSampler

\* Lines 66-69: an empty result is an error.
X_Return ==
    /\ xpc = "check"
    /\ IF Len(xframes) = 0
       THEN /\ xpc' = "raised"
            /\ xerror' = "RuntimeError: No frames were extracted from video"
            /\ UNCHANGED xret
       ELSE /\ xpc' = "done"
            /\ xret' = <<xframes>>
            /\ UNCHANGED xerror
    /\ UNCHANGED <<source, fps, cap, releases, reads, video_fps, frame_interval,
                   frame_count, xframes>>
    /\ UNCHANGED exceptSampler

(***************************************************************************)
(* sharpness.py, face_detector.py, brightness.py, composition.py: the four *)
(* metric functions, computed from what OpenCV and numpy measure on the    *)
(* frame. A float result is held as the exact fraction [num, den] with     *)
(* den > 0. An image is the record of those measurements:                  *)
(*   variance         laplacian.var()                                      *)
(*   height, width    gray.shape                                           *)
(*   faces            the boxes <<x, y, w, h>> detectMultiScale returns    *)
(*   mean_brightness  np.mean(gray)                                        *)
(*   std_brightness   np.std(gray), in tenths                              *)
(*   clipped          (dark_pixels + bright_pixels) * 100, in percent      *)
(*   densities        np.sum(region) / region.size at the four points      *)
(*   quadrants        np.sum of the edge map over the top-left, top-right, *)
(*                    bottom-left and bottom-right quarter                 *)
(*   center           center_region.sum()                                  *)
(***************************************************************************)
Min(a, b) == IF a <= b THEN a ELSE b
Max(a, b) == IF a >= b THEN a ELSE b

\* sharpness.py line 38: min(100, variance / 10.0).
normalized_score(variance) == [num |-> Min(100 * 10, variance), den |-> 10]

RECURSIVE total_face_area(_)
\* face_detector.py lines 61-63: the sum of w * h over the boxes.
total_face_area(faces) ==
    IF faces = <<>> THEN 0
    ELSE Head(faces)[3] * Head(faces)[4] + total_face_area(Tail(faces))

\* Variant: four faces still earn the full bonus.
count_bonus_UpToFour(face_count) ==
    IF 1 <= face_count /\ face_count <= 4 THEN 30
    ELSE IF face_count = 5 THEN 10
    ELSE 5

\* face_detector.py lines 75-82.
count_bonus(face_count) ==
    IF 1 <= face_count /\ face_count <= 3 THEN 30
    ELSE IF face_count = 4 THEN 20
    ELSE IF face_count = 5 THEN 10
    ELSE 5

\* face_detector.py lines 54-86, from the boxes found: (face_score,
\* face_count). The score is held over the denominator frame_area:
\* face_coverage * 3 is 300 * total_face_area / frame_area.
face_total_score(faces, frame_area) ==
    LET face_count == Len(faces)
        base_score == Min(300 * total_face_area(faces), 70 * frame_area)
        total_score == Min(base_score + count_bonus(face_count) * frame_area,
                           100 * frame_area)
    IN IF face_count = 0 THEN << [num |-> 0, den |-> 1], 0 >>
       ELSE << [num |-> total_score, den |-> frame_area], face_count >>

\* np.std(gray) is held in tenths of a grey level.
StdUnit == 10

\* Variant: the ideal band is open at 40.
contrast_score_OpenAtForty(std) ==
    IF 40 * StdUnit < std /\ std <= 80 * StdUnit THEN 20
    ELSE IF (30 * StdUnit <= std /\ std <= 40 * StdUnit)
            \/ (80 * StdUnit < std /\ std <= 100 * StdUnit) THEN 15
    ELSE IF (20 * StdUnit <= std /\ std < 30 * StdUnit)
            \/ (100 * StdUnit < std /\ std <= 120 * StdUnit) THEN 10
    ELSE 5

\* brightness.py lines 56-63.
contrast_score(std) ==
    IF 40 * StdUnit <= std /\ std <= 80 * StdUnit THEN 20
    ELSE IF (30 * StdUnit <= std /\ std < 40 * StdUnit)
            \/ (80 * StdUnit < std /\ std <= 100 * StdUnit) THEN 15
    ELSE IF (20 * StdUnit <= std /\ std < 30 * StdUnit)
            \/ (100 * StdUnit < std /\ std <= 120 * StdUnit) THEN 10
    ELSE 5

\* brightness.py lines 46-68: the locals at the return, each sub-score and
\* the result over the denominator 127.
brightness_balance(img) ==
    LET ideal_brightness == 127
        brightness_score == 50 * (127 - Abs(img.mean_brightness - ideal_brightness))
        clipping_score == Max(0, 30 - img.clipped)
        contrast == contrast_score(img.std_brightness)
        total_score == brightness_score + 127 * (clipping_score + contrast)
    IN [brightness_score |-> [num |-> brightness_score, den |-> 127],
        clipping_score |-> clipping_score,
        contrast_score |-> contrast,
        result |-> [num |-> Min(100 * 127, Max(0, total_score)), den |-> 127]]

\* An integer too large for the checker is held as [wraps, rest], the
\* number wraps * 2^64 + rest with |rest| far below 2^64: wraps counts the
\* times an unsigned 64-bit operation wrapped around.
WideSign(x) ==
    IF x.wraps > 0 THEN 1
    ELSE IF x.wraps < 0 THEN -1
    ELSE IF x.rest > 0 THEN 1
    ELSE IF x.rest < 0 THEN -1
    ELSE 0

\* x <= n for a wide x and an integer n.
WideLeq(x, n) == WideSign([wraps |-> x.wraps, rest |-> x.rest - n]) <= 0

\* a - b of two numpy uint64 scalars (the type np.sum gives for the uint8
\* edge map): the difference modulo 2^64.
UnsignedSub(a, b) ==
    IF a >= b THEN [wraps |-> 0, rest |-> a - b]
    ELSE [wraps |-> 1, rest |-> a - b]

\* composition.py lines 86-89 (and 91-94): 1 - abs(a - b) / (a + b), or 0
\* when a + b is 0. abs() of an unsigned value is the value itself.
balance(a, b) ==
    IF a + b > 0
    THEN LET d == UnsignedSub(a, b)
         IN [num |-> [wraps |-> -d.wraps, rest |-> (a + b) - d.rest], den |-> a + b]
    ELSE [num |-> [wraps |-> 0, rest |-> 0], den |-> 1]

\* composition.py lines 80-83 and 98: the sums over the halves and the whole.
left_edges(img) == img.quadrants[1] + img.quadrants[3]
right_edges(img) == img.quadrants[2] + img.quadrants[4]
top_edges(img) == img.quadrants[1] + img.quadrants[2]
bottom_edges(img) == img.quadrants[3] + img.quadrants[4]
edges_sum(img) ==
    img.quadrants[1] + img.quadrants[2] + img.quadrants[3] + img.quadrants[4]

\* composition.py lines 61-76, in tenths of a point: min(25, edge_density / 10)
\* summed over the four rule-of-thirds points.
rot_total_score(img) ==
    Min(250, img.densities[1]) + Min(250, img.densities[2])
    + Min(250, img.densities[3]) + Min(250, img.densities[4])

\* composition.py lines 97-102, times edges.sum(): (center_weight - 0.5) * 20
\* when center_weight > 0.5.
center_penalty(img) ==
    IF edges_sum(img) > 0 /\ 2 * img.center > edges_sum(img)
    THEN 20 * img.center - 10 * edges_sum(img)
    ELSE 0

\* composition.py line 105, over the denominator of the two balances (both
\* are edges.sum() when it is positive: the halves of either axis make up
\* the whole map).
balance_score(img) ==
    LET lr_balance == balance(left_edges(img), right_edges(img))
        tb_balance == balance(top_edges(img), bottom_edges(img))
    IN [num |-> [wraps |-> 10 * (lr_balance.num.wraps + tb_balance.num.wraps),
                 rest |-> 10 * (lr_balance.num.rest + tb_balance.num.rest)],
        den |-> lr_balance.den]

\* composition.py line 106, over the denominator 10 * balance_score.den.
final_score(img) ==
    LET b == balance_score(img)
    IN [num |-> [wraps |-> 10 * b.num.wraps,
                 rest |-> rot_total_score(img) * b.den + 10 * b.num.rest
                          - 10 * center_penalty(img)],
        den |-> 10 * b.den]

\* Variant: line 108 returns final_score as it is (a value that wrapped is
\* below zero or above 100: a number beyond that end stands for it).
composition_result_Unclamped(img) ==
    LET f == final_score(img)
    IN [num |-> IF f.num.wraps = 0 THEN f.num.rest ELSE f.num.wraps * (101 * f.den),
        den |-> f.den]

\* composition.py line 108: min(100, max(0, final_score)).
composition_result(img) ==
    LET f == final_score(img)
    IN [num |-> IF WideSign(f.num) < 0 THEN 0
                ELSE IF WideLeq(f.num, 100 * f.den) THEN f.num.rest
                ELSE 100 * f.den,
        den |-> f.den]

\* The locals of calculate_composition_score at its return.
composition_score(img) ==
    [lr_balance |-> balance(left_edges(img), right_edges(img)),
     tb_balance |-> balance(top_edges(img), bottom_edges(img)),
     balance_score |-> balance_score(img),
     result |-> composition_result(img)]

\* A uniform grey frame at luminance 127: no edges, no faces, nothing clipped.
UniformGrey ==
    [variance |-> 0, height |-> 40, width |-> 60, faces |-> <<>>,
     mean_brightness |-> 127, std_brightness |-> 0, clipped |-> 0,
     densities |-> <<0, 0, 0, 0>>, quadrants |-> <<0, 0, 0, 0>>, center |-> 0]

Variances == { 0, 5, 300, 1000, 1001, 25000 }

\* (height, width) of a small and of a 640 x 480 frame.
FrameShapes == { <<40, 60>>, <<480, 640>> }

\* Boxes <<x, y, w, h>> at the detector's minSize and above it; they overlap.
BoxPool == { <<0, 0, 30, 30>>, <<10, 0, 40, 40>> }

Means == { 0, 64, 127, 200, 255 }

\* Standard deviations in tenths, on and around every band boundary.
Stds == { 0, 199, 200, 201, 299, 300, 301, 399, 400, 401, 600,
          799, 800, 801, 999, 1000, 1001, 1199, 1200, 1201, 1275 }

Clippings == { 0, 10, 30, 45, 100 }

\* Sums of a 0/255 edge map over one quarter of the frame.
QuadrantSums == { 0, 255, 510 }

DensityChoices == { <<0, 0, 0, 0>>, <<120, 0, 30, 255>>, <<255, 255, 255, 255>> }

\* The centre region holds none, all, or all but one of the edge pixels.
CenterChoices(total) ==
    { 0, total } \cup (IF total >= 510 THEN { total - 255 } ELSE {})

\* The images the model scores: UniformGrey with the measurements of one
\* metric function varied at a time.
Images ==
    { [UniformGrey EXCEPT !.variance = v] : v \in Variances }
    \cup { [UniformGrey EXCEPT !.height = sh[1], !.width = sh[2], !.faces = fs] :
             sh \in FrameShapes, fs \in SeqsUpTo(BoxPool, MaxFaces) }
    \cup { [UniformGrey EXCEPT !.mean_brightness = m, !.std_brightness = s,
                               !.clipped = c] :
             m \in Means, s \in Stds, c \in Clippings }
    \cup UNION { { [UniformGrey EXCEPT !.quadrants = q, !.densities = d, !.center = c] :
                     d \in (IF q = <<0, 0, 0, 0>> THEN { <<0, 0, 0, 0>> }
                            ELSE DensityChoices),
                     c \in CenterChoices(q[1] + q[2] + q[3] + q[4]) } :
                 q \in QuadrantSums \X QuadrantSums \X QuadrantSums \X QuadrantSums }

\* A float score as the whole number of points score_frame's model takes.
Points(x) == x.num \div x.den

\* The frame as score_frame sees it once the four functions have returned.
Measured(sharp, face, bright, comp) ==
    [id |-> 0, ok |-> TRUE,
     sharpness |-> Points(sharp),
     face_clarity |-> Points(face[1]),
     face_count |-> face[2],
     brightness |-> Points(bright.result),
     composition |-> Points(comp.result)]

MetricInit ==
    /\ image \in Images
    /\ mweights \in WeightChoices
    /\ mpc = "call"
    /\ msharp = <<>> /\ mface = <<>> /\ mbright = <<>> /\ mcomp = <<>>
    /\ mscores = <<>>

MetricIdle ==
    /\ image = UniformGrey /\ mweights = <<>> /\ mpc = "idle"
    /\ msharp = <<>> /\ mface = <<>> /\ mbright = <<>> /\ mcomp = <<>>
    /\ mscores = <<>>

\* score_frame line 39.
M_Sharpness ==
    /\ mpc = "call"
    /\ msharp' = << normalized_score(image.variance) >>
    /\ mpc' = "faces"
    /\ UNCHANGED <<image, mweights, mface, mbright, mcomp, mscores>>
    /\ UNCHANGED exceptMetric

\* score_frame line 40.
M_Faces ==
    /\ mpc = "faces"
    /\ mface' = << face_total_score(image.faces, image.height * image.width) >>
    /\ mpc' = "brightness"
    /\ UNCHANGED <<image, mweights, msharp, mbright, mcomp, mscores>>
    /\ UNCHANGED exceptMetric

\* score_frame line 41.
M_Brightness ==
    /\ mpc = "brightness"
    /\ mbright' = << brightness_balance(image) >>
    /\ mpc' = "composition"
    /\ UNCHANGED <<image, mweights, msharp, mface, mcomp, mscores>>
    /\ UNCHANGED exceptMetric

\* score_frame line 42.
M_Composition ==
    /\ mpc = "composition"
    /\ mcomp' = << composition_score(image) >>
    /\ mpc' = "overall"
    /\ UNCHANGED <<image, mweights, msharp, mface, mbright, mscores>>
    /\ UNCHANGED exceptMetric

\* score_frame lines 35-36 and 45-59.
M_Overall ==
    /\ mpc = "overall"
    /\ mscores' = << score_frame(Measured(msharp[1], mface[1], mbright[1], mcomp[1]),
                                 mweights) >>
    /\ mpc' = "done"
    /\ UNCHANGED <<image, mweights, msharp, mface, mbright, mcomp>>
    /\ UNCHANGED exceptMetric

(***************************************************************************)
(* face_detector.py: the lazily loaded classifier shared by every caller.  *)
(***************************************************************************)
\* The threads that score frames in one process (each Streamlit session
\* runs app.py in a thread of its own; the module global is shared).
Threads == 1..NumThreads

\* The two functions that call _get_face_cascade.
CascadeCallers == { "detect_faces", "get_face_regions" }

\* Module import, line 13: nothing loaded, nobody calling. The model never
\* leaves this state outside CascadeSpec.
CascadeIdle ==
    /\ face_cascade = <<>>
    /\ loads = 0
    /\ tfn = [t \in Threads |-> "none"]
    /\ tpc = [t \in Threads |-> "idle"]
    /\ tlocal = [t \in Threads |-> <<>>]
    /\ tcalls = [t \in Threads |-> 0]
    /\ used = {}

\* Lines 26-46 / 89-100: thread t calls one of the two functions, which
\* calls _get_face_cascade.
T_Call(t) ==
    /\ tpc[t] = "idle" /\ tcalls[t] < MaxCalls
    /\ \E f \in CascadeCallers : tfn' = [tfn EXCEPT ![t] = f]
    /\ tpc' = [tpc EXCEPT ![t] = "check"]
    /\ tlocal' = [tlocal EXCEPT ![t] = <<>>]
    /\ UNCHANGED <<face_cascade, loads, tcalls, used>>
    /\ UNCHANGED exceptCascade

\* Line 19: if _face_cascade is None. Nothing keeps another thread from
\* running between this test and the assignment of line 20.
T_Check(t) ==
    /\ tpc[t] = "check"
    /\ tpc' = [tpc EXCEPT ![t] = IF face_cascade = <<>> THEN "load" ELSE "return"]
    /\ UNCHANGED <<face_cascade, loads, tfn, tlocal, tcalls, used>>
    /\ UNCHANGED exceptCascade

\* Lines 20-22: a new classifier is constructed and stored in the global.
\* Instances are numbered in the order of their construction.
T_Load(t) ==
    /\ tpc[t] = "load"
    /\ loads' = loads + 1
    /\ face_cascade' = << loads + 1 >>
    /\ tpc' = [tpc EXCEPT ![t] = "return"]
    /\ UNCHANGED <<tfn, tlocal, tcalls, used>>
    /\ UNCHANGED exceptCascade

\* Line 23 and line 46 / 100: return _face_cascade, into the caller's local.
T_Return(t) ==
    /\ tpc[t] = "return"
    /\ tlocal' = [tlocal EXCEPT ![t] = face_cascade]
    /\ tpc' = [tpc EXCEPT ![t] = "detect"]
    /\ UNCHANGED <<face_cascade, loads, tfn, tcalls, used>>
    /\ UNCHANGED exceptCascade

\* Lines 47-86 / 102-109: detectMultiScale on the local, then the return.
T_Detect(t) ==
    /\ tpc[t] = "detect"
    /\ used' = used \cup { tlocal[t][1] }
    /\ tcalls' = [tcalls EXCEPT ![t] = tcalls[t] + 1]
    /\ tfn' = [tfn EXCEPT ![t] = "none"]
    /\ tpc' = [tpc EXCEPT ![t] = "idle"]
    /\ UNCHANGED <<face_cascade, loads, tlocal>>
    /\ UNCHANGED exceptCascade

(***************************************************************************)
(* Specifications: one call of the scorer, one call of the sampler, one     *)
(* call of score_frame on one image, threads calling the face detector.    *)
(***************************************************************************)
Init == ScorerInit /\ SamplerIdle /\ MetricIdle /\ CascadeIdle

Next ==
    \/ FB_Enter
    \/ FB_Iterate
    \/ FB_Return
    \/ SA_Enter
    \/ SA_Iterate
    \/ SA_Return

Spec == Init /\ [][Next]_vars

SamplerStart == SamplerInit /\ ScorerIdle /\ MetricIdle /\ CascadeIdle

SamplerNext ==
    \/ X_Open
    \/ X_Props
    \/ X_Interval
    \/ X_Read
    \/ X_Finally
    \/ X_Return

SamplerSpec == SamplerStart /\ [][SamplerNext]_vars

MetricStart == MetricInit /\ ScorerIdle /\ SamplerIdle /\ CascadeIdle

MetricNext ==
    \/ M_Sharpness
    \/ M_Faces
    \/ M_Brightness
    \/ M_Composition
    \/ M_Overall

MetricSpec == MetricStart /\ [][MetricNext]_vars

CascadeStart == CascadeIdle /\ ScorerIdle /\ SamplerIdle /\ MetricIdle

CascadeNext ==
    \/ \E t \in Threads : T_Call(t)
    \/ \E t \in Threads : T_Check(t)
    \/ \E t \in Threads : T_Load(t)
    \/ \E t \in Threads : T_Return(t)
    \/ \E t \in Threads : T_Detect(t)

CascadeSpec == CascadeStart /\ [][CascadeNext]_vars

(***************************************************************************)
(* Properties of the scorer (specification Spec).                          *)
(***************************************************************************)
Terminal == pc \in { "done", "raised" }

\* The spec's name for the error of line 79.
EmptyInput == "ValueError: No frames provided"

\* Overall score of the sample at (1-based) position k, scored on its own.
OverallAt(k) == score_frame(frames[k][1], weights).overall

NonNegativeWeights ==
    LET wt == EffectiveWeights(weights)
    IN wt.sharpness >= 0 /\ wt.face_clarity >= 0 /\ wt.brightness >= 0
       /\ wt.composition >= 0

\* The weighted sum of a frame's four metric values, written out from the
\* weight set in force.
WeightedSum(frame) ==
    LET wt == IF weights = <<>> THEN DEFAULT_WEIGHTS ELSE weights[1]
    IN frame.sharpness * wt.sharpness + frame.face_clarity * wt.face_clarity
       + frame.brightness * wt.brightness + frame.composition * wt.composition

\* (1-based) position of the first sample whose scoring fails, 0 when none.
FirstBad ==
    IF \E k \in 1..Len(frames) : ~frames[k][1].ok
    THEN CHOOSE k \in 1..Len(frames) :
            /\ ~frames[k][1].ok
            /\ \A j \in 1..(k - 1) : frames[j][1].ok
    ELSE 0

\* The calls made by m complete iterations: score, then (with a hook) the
\* hook with (k, n), for k = 1..m.
TraceOf(m) ==
    IF Truthy(progress_callback)
    THEN [p \in 1..(2 * m) |->
            IF p % 2 = 1 THEN <<"score", (p - 1) \div 2>>
            ELSE <<"hook", p \div 2, Len(frames)>>]
    ELSE [p \in 1..m |-> <<"score", p - 1>>]

\* C1: when find_best_frame returns (non-negative weights), the returned
\* index is the lowest index whose overall score is the maximum over the
\* sequence: no sample scores strictly higher, no earlier sample scores equal.
C1_FirstMaximum ==
    (op = "find_best_frame" /\ pc = "done" /\ NonNegativeWeights) =>
        LET b == ret[1][1] + 1
        IN /\ b \in 1..Len(frames)
           /\ \A k \in 1..Len(frames) : OverallAt(k) <= OverallAt(b)
           /\ \A k \in 1..(b - 1) : OverallAt(k) < OverallAt(b)

\* A returned selection whose maximum is also attained at a later position,
\* and which is not the first sample.
C1_Witness ==
    /\ op = "find_best_frame" /\ pc = "done" /\ NonNegativeWeights
    /\ ret[1][1] = 1
    /\ Len(frames) = 3
    /\ OverallAt(3) = OverallAt(2)
    /\ OverallAt(1) < OverallAt(2)

\* C2: when find_best_frame returns over n >= 1 samples, the result is an
\* index i in [0, n), the frame and the timestamp stored at position i, and
\* the breakdown score_frame gives for that frame with the same weights; its
\* overall is the weighted sum of that frame's metrics.
C2_ResultIsSampleAtIndex ==
    (op = "find_best_frame" /\ pc = "done") =>
        /\ Len(frames) >= 1
        /\ Len(ret) = 1
        /\ ret[1][1] \in 0..(Len(frames) - 1)
        /\ ret[1][2] = frames[ret[1][1] + 1][1]
        /\ ret[1][3] = frames[ret[1][1] + 1][2]
        /\ ret[1][4] = << score_frame(frames[ret[1][1] + 1][1], weights) >>
        /\ ret[1][4][1].overall = WeightedSum(frames[ret[1][1] + 1][1])

\* A returned selection that is neither the first nor the last sample.
C2_Witness ==
    /\ op = "find_best_frame" /\ pc = "done"
    /\ Len(frames) = 3
    /\ ret[1][1] = 1
    /\ frames[1][1].id # frames[2][1].id
    /\ frames[3][1].id # frames[2][1].id

\* C3: find_best_frame on an empty sequence fails with EmptyInput, with no
\* frame scored, no progress call made and nothing returned.
C3_EmptyFindBestFails ==
    (op = "find_best_frame" /\ frames = <<>> /\ pc # "call") =>
        /\ pc = "raised"
        /\ error = EmptyInput
        /\ trace = <<>>
        /\ progress = <<>>
        /\ ret = <<>>

C3_Witness ==
    /\ op = "find_best_frame" /\ frames = <<>> /\ pc = "raised"
    /\ progress_callback = "update_progress"

\* C4 as stated: score_all_frames on an empty sequence fails with
\* EmptyInput and does not return normally.
C4_EmptyScoreAllFails ==
    (op = "score_all_frames" /\ frames = <<>> /\ Terminal) =>
        (pc = "raised" /\ error = EmptyInput)

\* C4 as amended: score_all_frames on an empty sequence returns normally
\* with an empty list, with no frame scored and no progress call made; only
\* find_best_frame fails with EmptyInput.
C4_EmptyScoreAllReturnsEmpty ==
    (op = "score_all_frames" /\ frames = <<>> /\ Terminal) =>
        /\ pc = "done"
        /\ ret = << <<>> >>
        /\ error = ""
        /\ trace = <<>>
        /\ progress = <<>>

C4_Witness ==
    /\ op = "score_all_frames" /\ frames = <<>> /\ pc = "done"

\* C5: when score_all_frames returns over n samples, the result has exactly
\* n pairs and the k-th pair is the timestamp of the k-th sample with the
\* breakdown of the k-th frame.
C5_ScoreAllInOrder ==
    (op = "score_all_frames" /\ pc = "done") =>
        /\ Len(ret) = 1
        /\ Len(ret[1]) = Len(frames)
        /\ \A k \in 1..Len(frames) :
              ret[1][k] = << frames[k][2], score_frame(frames[k][1], weights) >>

\* A returned list over three samples with three different timestamps, not
\* in ascending order.
C5_Witness ==
    /\ op = "score_all_frames" /\ pc = "done"
    /\ Len(frames) = 3
    /\ frames[1][2] > frames[2][2]
    /\ frames[2][2] < frames[3][2]
    /\ frames[1][2] # frames[3][2]

\* The lowest position attaining the maximum overall score.
FirstArgMax ==
    CHOOSE b \in 1..Len(frames) :
        /\ \A k \in 1..Len(frames) : OverallAt(k) <= OverallAt(b)
        /\ \A k \in 1..(b - 1) : OverallAt(k) < OverallAt(b)

\* C6: with a hook supplied, the calls made so far are score(0), hook(1, n),
\* score(1), hook(2, n), ...: the k-th hook call follows the scoring of
\* sample k, precedes the scoring of sample k + 1 and carries (k, n); without
\* a hook only the scorings are made. On return there were n iterations, the
\* hook update_progress last saw (n, n), and the returned value is the one
\* determined by the samples and the weights alone, whatever the hook.
C6_ProgressHook ==
    (op \in { "find_best_frame", "score_all_frames" } /\ pc \in { "loop", "done" }) =>
        /\ trace = TraceOf(i)
        /\ pc = "done" =>
              /\ i = Len(frames)
              /\ (progress_callback = "update_progress" /\ Len(frames) > 0)
                    => progress = << <<Len(frames), Len(frames)>> >>
              /\ progress_callback # "update_progress" => progress = <<>>
              /\ op = "score_all_frames" =>
                    ret = << [k \in 1..Len(frames) |->
                                << frames[k][2], score_frame(frames[k][1], weights) >>] >>
              /\ op = "find_best_frame" =>
                    ret = << << FirstArgMax - 1, frames[FirstArgMax][1],
                                frames[FirstArgMax][2],
                                << score_frame(frames[FirstArgMax][1], weights) >> >> >>

C6_Witness ==
    /\ pc = "done" /\ Len(frames) = 3
    /\ progress_callback = "update_progress"
    /\ Len(trace) = 6
    /\ progress = << <<3, 3>> >>

\* C7: when the scoring of the sample at position k fails, the call ends
\* with that error and returns nothing: every sample before k was scored
\* once, sample k was the last one scored, and the hook was called for the
\* samples before k only. A sequence holding such a sample never ends in a
\* normal return.
C7_FailureAborts ==
    (op \in { "find_best_frame", "score_all_frames" } /\ FirstBad > 0) =>
        /\ pc # "done"
        /\ ret = <<>>
        /\ i < FirstBad
        /\ pc = "raised" =>
              /\ error = "MetricError"
              /\ i = FirstBad - 1
              /\ trace = TraceOf(FirstBad - 1) \o << <<"score", FirstBad - 1>> >>

\* A failure at the second of three samples, with a hook.
C7_Witness ==
    /\ pc = "raised" /\ error = "MetricError"
    /\ Len(frames) = 3 /\ FirstBad = 2
    /\ progress_callback = "noop"
    /\ Len(trace) = 3

\* The weights as the caller supplied them (the defaults when none were).
SuppliedWeights == IF weights = <<>> THEN DEFAULT_WEIGHTS ELSE weights[1]

\* The weighted sum of the four sub-scores a breakdown reports.
SumOfReported(b, wt) ==
    b.sharpness * wt.sharpness + b.face_clarity * wt.face_clarity
    + b.brightness * wt.brightness + b.composition * wt.composition

ScaledWeights(wt, c) ==
    [sharpness |-> c * wt.sharpness, face_clarity |-> c * wt.face_clarity,
     brightness |-> c * wt.brightness, composition |-> c * wt.composition]

ScaleFactors == { 0, 2, 3 }

\* b is the breakdown of frame f with overall the weighted sum of the
\* sub-scores b reports under the supplied weights, and scaling the weights
\* by c scales the overall by c.
WeightedAsSupplied(b, f) ==
    /\ b.overall = SumOfReported(b, SuppliedWeights)
    /\ \A c \in ScaleFactors :
          score_frame(f, <<ScaledWeights(SuppliedWeights, c)>>).overall = c * b.overall

\* C14: every breakdown score_frame has produced (the entries of results in
\* score_all_frames, the tracked best in find_best_frame) has overall equal
\* to sharpness * w_sharpness + face_clarity * w_face_clarity + brightness *
\* w_brightness + composition * w_composition over the sub-scores of the
\* same breakdown, with the supplied weights unchanged (the defaults only
\* when none are supplied); weights are never renormalised, so scaling the
\* four weights by c scales overall by c.
C14_OverallIsWeightedSum ==
    /\ \A k \in 1..Len(results) : WeightedAsSupplied(results[k][2], frames[k][1])
    /\ best_scores_dict # <<>> =>
          WeightedAsSupplied(best_scores_dict[1], frames[best_index + 1][1])

\* Three frames scored with four weights of 1.0 each, which do not sum to 1:
\* the first overall is above 100 points.
C14_Witness ==
    /\ op = "score_all_frames" /\ pc = "done"
    /\ weights # <<>> /\ weights[1].sharpness + weights[1].face_clarity
                           + weights[1].brightness + weights[1].composition
                         = 4 * WeightScale
    /\ Len(results) = 3
    /\ results[1][2].overall > 100 * WeightScale

\* The maximum of a non-empty set of integers.
MaxOf(S) == CHOOSE m \in S : \A x \in S : x <= m

\* C20: loop invariant of find_best_frame over a non-empty sequence with
\* non-negative weights. The initial best score -1 is strictly below every
\* achievable overall score; so once the first sample has been scored the
\* tracked breakdown is set, and after each iteration the tracked best score
\* is the maximum overall among the samples scored so far, the tracked index
\* is the first position attaining it, and the tracked breakdown is the one
\* computed for that position.
C20_LoopInvariant ==
    (op = "find_best_frame" /\ pc \in { "loop", "done" } /\ NonNegativeWeights) =>
        /\ \A k \in 1..Len(frames) : -1 * WeightScale < OverallAt(k)
        /\ i = 0 => (best_score = -1 * WeightScale /\ best_scores_dict = <<>>)
        /\ i >= 1 =>
              /\ best_scores_dict # <<>>
              /\ best_score = MaxOf({ OverallAt(k) : k \in 1..i })
              /\ best_index + 1 \in 1..i
              /\ OverallAt(best_index + 1) = best_score
              /\ \A k \in 1..best_index : OverallAt(k) < best_score
              /\ best_scores_dict[1]
                    = score_frame(frames[best_index + 1][1], weights)

\* Inside the loop after two iterations over three samples whose overall
\* scores are all 0 (sharpness alone is weighted): the first sample is the
\* tracked best, set against the initial -1.
C20_Witness ==
    /\ op = "find_best_frame" /\ pc = "loop" /\ i = 2 /\ Len(frames) = 3
    /\ NonNegativeWeights
    /\ OverallAt(1) = 0 /\ OverallAt(2) = 0
    /\ best_index = 0 /\ best_score = 0
    /\ best_scores_dict # <<>>

(***************************************************************************)
(* Properties of the sampler (specification SamplerSpec).                  *)
(***************************************************************************)
\* frame_interval holds the stride (lines 42-44 have run).
StrideComputed == xpc \in { "read", "finally", "check", "done" } \/ reads > 0

\* n is an integer nearest to F / R (either neighbour on a tie).
NearestToQuotient(n, F, R) == 2 * Abs(F - n * R) <= R

\* C8 as stated: for F > 0 and R > 0 the stride is max(1, round(F / R)),
\* the quotient rounded to the nearest integer.
C8_StrideRounded ==
    (StrideComputed /\ video_fps > 0 /\ fps > 0) =>
        \E n \in 0..(video_fps + 1) :
            /\ NearestToQuotient(n, video_fps, fps)
            /\ frame_interval = IF n < 1 THEN 1 ELSE n

\* C8 as amended: for F > 0 and R > 0 the stride is max(1, int(F / R)), the
\* quotient truncated toward zero (not rounded) and floored at 1: the stride
\* s is 1 when F < R, and otherwise s * R <= F < (s + 1) * R.
C8_StrideTruncated ==
    (StrideComputed /\ video_fps > 0 /\ fps > 0) =>
        /\ frame_interval >= 1
        /\ video_fps < fps => frame_interval = 1
        /\ video_fps >= fps =>
              /\ frame_interval * fps <= video_fps
              /\ video_fps < (frame_interval + 1) * fps

\* A stride of 1 computed from the quotient 25 / 15, whose nearest integer
\* is 2, and used for at least one read.
C8_Witness ==
    /\ StrideComputed /\ reads > 0
    /\ video_fps = 25 /\ fps = 15
    /\ frame_interval = 1

\* a / b <= c / d for fractions with positive denominators.
FracLeq(x, y) == x.num * y.den <= y.num * x.den

\* C9 as stated: extract_frames returns exactly the native frames whose index
\* k has k mod stride = 0, in native order, each with the timestamp k / F;
\* so there are ceil(N / stride) samples, the first is native frame 0 at
\* timestamp 0, and the timestamps never decrease along the sequence; 60
\* frames at 30 fps sampled at 1 fps give 2 samples, at 0.0 s and 1.0 s.
C9_SampledFrames ==
    xpc = "done" =>
        LET out == xret[1]
            N == source.native
            stride == frame_interval
        IN /\ Len(out) = (N + stride - 1) \div stride
           /\ \A j \in 1..Len(out) :
                 /\ out[j][1] = (j - 1) * stride
                 /\ out[j][1] < N
                 /\ out[j][2].num * video_fps
                       = out[j][1] * RateUnit * out[j][2].den
           /\ out[1][1] = 0 /\ out[1][2].num = 0
           /\ \A j \in 1..(Len(out) - 1) : FracLeq(out[j][2], out[j + 1][2])
           /\ (source = SmokeVideo /\ fps = RateUnit) =>
                 /\ Len(out) = 2
                 /\ out[1][2].num = 0
                 /\ out[2][2].num = out[2][2].den

\* The part of C9 the code does satisfy: the same statement for a native
\* rate F > 0.
C9_SampledFramesPositiveRate ==
    video_fps > 0 => C9_SampledFrames

\* C10: for F > 0 and R >= F the stride is 1 and every frame decoded so far
\* has been kept, in order; on return the samples are all the native frames.
C10_FullRateKeepsAll ==
    (StrideComputed /\ video_fps > 0 /\ fps >= video_fps) =>
        /\ frame_interval = 1
        /\ Len(xframes) = frame_count
        /\ \A j \in 1..Len(xframes) : xframes[j][1] = j - 1
        /\ xpc = "done" =>
              /\ xret = <<xframes>>
              /\ Len(xret[1]) = source.native

\* A return with R > F over a container of MaxNative frames.
C10_Witness ==
    /\ xpc = "done"
    /\ video_fps = 10 /\ fps = 20
    /\ source.native >= 3
    /\ Len(xret[1]) = source.native

\* The call has ended: it returned or an exception left it.
SamplerTerminal == xpc \in { "done", "raised" }

\* Some kept sample carries a negative timestamp.
NegativeTimestamp == \E j \in 1..Len(xframes) : xframes[j][2].num < 0

\* C11: when the decoder reports a native frame rate F <= 0, extract_frames
\* fails with "Could not determine video FPS" before any frame is decoded
\* and returns nothing; it never goes on to decode with F <= 0, so no sample
\* carries a negative or undefined timestamp.
C11_NonPositiveRateRejected ==
    (source.opened /\ source.rate <= 0 /\ xpc \notin { "call", "props" }) =>
        /\ xpc = "raised"
        /\ xerror = "RuntimeError: Could not determine video FPS"
        /\ reads = 0
        /\ xframes = <<>> /\ xret = <<>>
        /\ ~NegativeTimestamp

\* C12: once the container has been opened, the handle is released exactly
\* once on every exit path of extract_frames (return, rate not determined,
\* no frames extracted, an exception while reading or while computing the
\* stride): no exit leaves it open, and no frame is read after the release.
C12_ReleasedExactlyOnce ==
    /\ (SamplerTerminal /\ source.opened) => (cap = "released" /\ releases = 1)
    /\ releases <= 1
    /\ cap = "released" => xpc \notin { "props", "interval", "read", "finally" }

\* C13: extract_frames never returns an empty list: it returns at least one
\* sample or fails. It fails with "Could not open video file" when the
\* container cannot be opened, and with "No frames were extracted from video"
\* when decoding reaches the end of the stream with no sample kept.
C13_NeverReturnsEmpty ==
    /\ xpc = "done" => (xret # <<>> /\ Len(xret[1]) >= 1)
    /\ xpc # "done" => xret = <<>>
    /\ (~source.opened /\ xpc # "call") =>
          /\ xpc = "raised"
          /\ xerror = "ValueError: Could not open video file"
          /\ cap = "none" /\ reads = 0
    /\ (xpc \in { "check", "done", "raised" } /\ reads > 0
            /\ source.fault \notin 1..reads /\ xframes = <<>>) =>
          /\ xpc \in { "check", "raised" }
          /\ xpc = "raised" =>
                xerror = "RuntimeError: No frames were extracted from video"

\* A container of zero frames: one read reaches the end of the stream, the
\* handle is released and the call fails for want of samples.
C13_Witness ==
    /\ xpc = "raised"
    /\ xerror = "RuntimeError: No frames were extracted from video"
    /\ source.opened /\ source.native = 0 /\ source.rate > 0
    /\ reads = 1 /\ xframes = <<>> /\ xret = <<>>

(***************************************************************************)
(* Properties of the metric functions (specification MetricSpec).          *)
(***************************************************************************)
\* 0 <= x <= 100 for a fraction x.
InRange100(x) == 0 <= x.num /\ x.num <= 100 * x.den

\* The weights in use are the defaults, or non-negative and summing to 1.
UnitWeights(w) ==
    \/ w = <<>>
    \/ /\ w[1].sharpness >= 0 /\ w[1].face_clarity >= 0
       /\ w[1].brightness >= 0 /\ w[1].composition >= 0
       /\ w[1].sharpness + w[1].face_clarity + w[1].brightness + w[1].composition
             = WeightScale

\* C15: every breakdown score_frame produces (and so every one find_best_frame
\* and score_all_frames produce) under the default weights, or any
\* non-negative weights summing to 1, has sharpness, face_clarity,
\* brightness, composition and overall each within [0, 100] and face_count a
\* non-negative integer, for every frame. The range is checked on each
\* metric function's exact result and on the dict returned.
C15_ScoresInRange ==
    /\ msharp # <<>> => InRange100(msharp[1])
    /\ mface # <<>> => (InRange100(mface[1][1]) /\ mface[1][2] \in Nat)
    /\ mbright # <<>> => InRange100(mbright[1].result)
    /\ mcomp # <<>> => InRange100(mcomp[1].result)
    /\ (mscores # <<>> /\ UnitWeights(mweights)) =>
          LET d == mscores[1]
          IN /\ d.sharpness \in 0..100
             /\ d.face_clarity \in 0..100
             /\ d.brightness \in 0..100
             /\ d.composition \in 0..100
             /\ d.face_count \in Nat
             /\ d.overall \in 0..(100 * WeightScale)

\* A frame scored under the default weights whose composition total, 100
\* from the four points plus 20 for balance, was cut to 100.
C15_Witness ==
    /\ mpc = "done" /\ mweights = <<>>
    /\ edges_sum(image) > 0
    /\ WideSign(final_score(image).num) > 0
    /\ ~WideLeq(final_score(image).num, 100 * final_score(image).den)
    /\ mscores[1].composition = 100

\* The bonus for c >= 1 detected faces, as the claim lists it.
ClaimedBonus(c) ==
    IF c \in 1..3 THEN 30 ELSE IF c = 4 THEN 20 ELSE IF c = 5 THEN 10 ELSE 5

\* C16: detect_faces returns exactly (0.0, 0) when no face is found; for
\* c >= 1 boxes it returns the count c and the score
\* min(min(3 * coverage, 70) + bonus(c), 100), where coverage is 100 * (sum
\* of the box areas, overlaps counted repeatedly) / frame area and bonus is
\* 30 for c in 1..3, 20 for c = 4, 10 for c = 5 and 5 for c >= 6; the score
\* is within [0, 100] even when coverage exceeds 100, and at least bonus(c).
C16_FaceMetric ==
    mface # <<>> =>
        LET c == Len(image.faces)
            area == image.height * image.width
            boxes == total_face_area(image.faces)
            score == mface[1][1]
            expected == Min(Min(3 * 100 * boxes, 70 * area) + ClaimedBonus(c) * area,
                            100 * area)
        IN /\ c = 0 => mface[1] = << [num |-> 0, den |-> 1], 0 >>
           /\ c >= 1 =>
                 /\ mface[1][2] = c
                 /\ score.den = area /\ score.num = expected
                 /\ InRange100(score)
                 /\ score.num >= ClaimedBonus(c) * score.den

\* Four boxes covering more than the frame: 70 from coverage, 20 for the
\* count, 90 in all.
C16_Witness ==
    /\ mface # <<>>
    /\ Len(image.faces) = 4
    /\ total_face_area(image.faces) > image.height * image.width
    /\ mface[1][1].num = 90 * mface[1][1].den
    /\ mface[1][2] = 4

\* The contrast sub-score the claim gives for a standard deviation s (tenths).
ClaimedContrast(s) ==
    IF 40 * StdUnit <= s /\ s <= 80 * StdUnit THEN 20
    ELSE IF (30 * StdUnit <= s /\ s < 40 * StdUnit)
            \/ (80 * StdUnit < s /\ s <= 100 * StdUnit) THEN 15
    ELSE IF (20 * StdUnit <= s /\ s < 30 * StdUnit)
            \/ (100 * StdUnit < s /\ s <= 120 * StdUnit) THEN 10
    ELSE 5

\* The number of the claim's four bands that s falls in.
BandsHolding(s) ==
    LET in20 == 40 * StdUnit <= s /\ s <= 80 * StdUnit
        in15 == (30 * StdUnit <= s /\ s < 40 * StdUnit)
                \/ (80 * StdUnit < s /\ s <= 100 * StdUnit)
        in10 == (20 * StdUnit <= s /\ s < 30 * StdUnit)
                \/ (100 * StdUnit < s /\ s <= 120 * StdUnit)
        in5 == s < 20 * StdUnit \/ s > 120 * StdUnit
        One(b) == IF b THEN 1 ELSE 0
    IN One(in20) + One(in15) + One(in10) + One(in5)

BandBoundaries == { 20, 30, 40, 80, 100, 120 }

\* C17: the contrast sub-score of calculate_brightness_balance is a total
\* step function of the standard deviation s: 20 for 40 <= s <= 80; 15 for
\* 30 <= s < 40 or 80 < s <= 100; 10 for 20 <= s < 30 or 100 < s <= 120; 5
\* otherwise. Every s >= 0 is in exactly one band, each boundary value
\* belongs to the higher-scoring of its two adjacent bands, and a uniform
\* frame at luminance 127 scores 50 + 30 + 5 = 85.
C17_ContrastBands ==
    mbright # <<>> =>
        LET s == image.std_brightness
            b == mbright[1]
        IN /\ s >= 0
           /\ b.contrast_score = ClaimedContrast(s)
           /\ BandsHolding(s) = 1
           /\ (\E v \in BandBoundaries : s = v * StdUnit) =>
                 /\ b.contrast_score >= contrast_score(s - 1)
                 /\ b.contrast_score >= contrast_score(s + 1)
                 /\ contrast_score(s - 1) # contrast_score(s + 1)
           /\ (image.mean_brightness = 127 /\ s = 0 /\ image.clipped = 0) =>
                 /\ b.brightness_score.num = 50 * b.brightness_score.den
                 /\ b.clipping_score = 30
                 /\ b.contrast_score = 5
                 /\ b.result.num = 85 * b.result.den

\* A standard deviation of exactly 40 scored in the top band.
C17_Witness ==
    /\ mbright # <<>>
    /\ image.std_brightness = 40 * StdUnit
    /\ mbright[1].contrast_score = 20

\* The frame mirrored left to right, and top to bottom (even dimensions).
MirrorLeftRight(img) ==
    [img EXCEPT !.quadrants = <<img.quadrants[2], img.quadrants[1],
                                img.quadrants[4], img.quadrants[3]>>]
MirrorTopBottom(img) ==
    [img EXCEPT !.quadrants = <<img.quadrants[3], img.quadrants[4],
                                img.quadrants[1], img.quadrants[2]>>]

\* 0 <= x <= n for a fraction x with a wide numerator.
WideWithin(x, n) == WideSign(x.num) >= 0 /\ WideLeq(x.num, n * x.den)

\* C18: for every pair of edge masses (A, B) on an axis, held as unsigned
\* integer sums, the balance 1 - |A - B| / (A + B) lies in [0, 1], is 0 when
\* A = B = 0, and is the same for (A, B) and (B, A); so the balance term
\* added to the score is in [0, 20] and mirroring the frame left to right or
\* top to bottom does not change it.
C18_BalanceSymmetric ==
    mcomp # <<>> =>
        LET c == mcomp[1]
            A == left_edges(image)
            B == right_edges(image)
            T == top_edges(image)
            D == bottom_edges(image)
        IN /\ WideWithin(c.lr_balance, 1)
           /\ WideWithin(c.tb_balance, 1)
           /\ (A = 0 /\ B = 0) => c.lr_balance.num = [wraps |-> 0, rest |-> 0]
           /\ (T = 0 /\ D = 0) => c.tb_balance.num = [wraps |-> 0, rest |-> 0]
           /\ balance(B, A) = c.lr_balance
           /\ balance(D, T) = c.tb_balance
           /\ WideWithin(c.balance_score, 20)
           /\ balance_score(MirrorLeftRight(image)) = c.balance_score
           /\ balance_score(MirrorTopBottom(image)) = c.balance_score

\* The part of C18 the code does satisfy: the same statement for frames
\* whose left half and top half hold at least as much edge mass as the
\* right and the bottom, without the two mirrored frames.
C18_BalanceWhenNoWrap ==
    (mcomp # <<>> /\ left_edges(image) >= right_edges(image)
        /\ top_edges(image) >= bottom_edges(image)) =>
        /\ WideWithin(mcomp[1].lr_balance, 1)
        /\ WideWithin(mcomp[1].tb_balance, 1)
        /\ WideWithin(mcomp[1].balance_score, 20)

(***************************************************************************)
(* Properties of the shared classifier (specification CascadeSpec).        *)
(***************************************************************************)
\* C19: across any sequence of detect_faces and get_face_regions calls,
\* interleaved executions included, the cascade is loaded at most once (on
\* first use), every call uses that same instance, and the shared handle,
\* once set, is never replaced: it is the first instance constructed.
C19_LoadedOnce ==
    /\ loads <= 1
    /\ used \subseteq { 1 }
    /\ face_cascade \in { <<>>, <<1>> }
    /\ \A t \in Threads : tlocal[t] \in { <<>>, <<1>> }

\* The part of C19 the code does satisfy: every call runs detectMultiScale
\* on an instance that was loaded, and the handle, once set, stays set.
C19_AlwaysLoadedBeforeUse ==
    /\ used \subseteq 1..loads
    /\ loads >= 1 => face_cascade # <<>>
    /\ \A t \in Threads : tpc[t] = "detect" => tlocal[t] # <<>>

=============================================================================
